---- MODULE Spec2Model ----
(***************************************************************************)
(* Model of initialize_devnet.py: the SolSafe devnet setup advisor.        *)
(*                                                                         *)
(* Text is modelled as a sequence of tokens.  Text that comes from outside *)
(* (a child's stdout and stderr) is a sequence of one-character strings;   *)
(* string literals of the script are kept as one token each, except that a *)
(* line break is always the token "\n" of its own, so the lines of the     *)
(* output can be counted.  `output` holds what each print call wrote to    *)
(* standard output, its terminating line break included.                   *)
(*                                                                         *)
(* The non-ASCII characters of the script's literals are written by their  *)
(* code points (U+1F680 for the rocket of line 34, and so on).             *)
(***************************************************************************)
EXTENDS Integers, Sequences, FiniteSets, TLC

VARIABLES
  pc,          \* position of main()
  locals,      \* main()'s local variables: a name is in the domain once bound
  output,      \* standard output: one entry per print call
  child,       \* the child process run_cmd waits for: none, running or hung
  result,      \* outcome of the last subprocess.run call
  invoked,     \* the commands handed to run_cmd so far, in order
  returned,    \* the exit codes run_cmd returned so far, in order
  VALIDATORS,  \* the module-level list of line 17
  exit_status, \* exit status of the interpreter: <<>> until it has exited
  visited      \* the states of the run's state machine entered so far

vars == <<pc, locals, output, child, result, invoked, returned, VALIDATORS,
          exit_status, visited>>

----------------------------------------------------------------------------
(* Bounds of the model *)

MaxOutLen == 3
MaxErrLen == 1
MaxRc == 2

(* Bounds on the text a child writes in the specification with fairness. *)
LiveOutLen == 1
LiveErrLen == 1

(* Characters a child can write: a letter, a blank and a line break. *)
Chars == {"a", " ", "\n"}

(* Characters of a child's stderr, which the script never trims. *)
ErrChars == {"a", "\n"}

TextUpTo(n, alphabet) == UNION {[1..k -> alphabet] : k \in 0..n}

ExitCodes == 0..MaxRc

----------------------------------------------------------------------------
(* Configuration, lines 13-23 *)

PROGRAM_ID == "FfV3AHU6WS7aPz53DnVvWBMEZR46ydGkEtKpLiKfRTrR"

RPC_ENDPOINT == "https://api.devnet.solana.com"

ValidatorIdentifiers ==
  << <<"9","m","t","q","P","Q","n","W","c","d","U","J","j","V","H","q","Y","a","W","G","H","w","w","F","s","w","H","L","A","E","a","M","k","M","o","L","M","s","c","t","A","f","m","s">>,
     <<"3","o","g","t","s","3","U","m","E","w","R","B","d","G","N","S","c","C","h","z","K","p","c","r","e","u","P","P","N","B","C","4","5","T","M","1","4","8","f","C","T","E","d","M">>,
     <<"E","a","p","h","3","z","9","p","G","P","H","9","y","U","k","D","Q","d","U","Z","i","G","4","e","j","E","w","M","r","U","X","x","L","s","P","7","w","G","e","h","B","a","s","y">>,
     <<"G","s","e","u","i","v","b","e","q","F","d","g","Q","n","Z","u","i","s","1","e","Y","U","j","A","E","2","b","m","Z","t","A","6","9","5","u","K","x","t","u","o","j","d","W","D">>,
     <<"C","b","Q","D","d","W","6","6","f","h","x","G","B","A","x","y","u","R","1","g","H","m","v","t","G","f","v","B","c","p","M","o","s","a","N","W","o","8","X","N","y","J","5","M">> >>

WalletCommand == "solana address"

KeygenCommand ==
  "solana-keygen grind-validator --starts-with global:1 --starts-with global"

----------------------------------------------------------------------------
(* Library functions the script calls *)

(* The characters str.strip() removes, among Chars. *)
Whitespace == {" ", "\n"}

RECURSIVE lstrip(_)
lstrip(s) ==
  IF s = <<>> THEN s
  ELSE IF Head(s) \in Whitespace THEN lstrip(Tail(s)) ELSE s

RECURSIVE rstrip(_)
rstrip(s) ==
  IF s = <<>> THEN s
  ELSE IF s[Len(s)] \in Whitespace THEN rstrip(SubSeq(s, 1, Len(s) - 1)) ELSE s

(* str.lstrip() in place of str.strip() at line 44. *)
strip_leading_only(s) == lstrip(s)

strip(s) == rstrip(lstrip(s))

(* print(text): the text and the line break that ends it. *)
print(o, text) == Append(o, text \o <<"\n">>)

(* json.dumps of one character of a string. *)
JsonEscape(c) ==
  CASE c = "\"" -> <<"\\", "\"">>
    [] c = "\\" -> <<"\\", "\\">>
    [] c = "\n" -> <<"\\", "n">>
    [] OTHER -> <<c>>

RECURSIVE JsonString(_)
JsonString(s) ==
  IF s = <<>> THEN <<>> ELSE JsonEscape(Head(s)) \o JsonString(Tail(s))

RECURSIVE JsonItems(_, _)
JsonItems(list, i) ==
  IF i > Len(list) THEN <<>>
  ELSE <<" ", " ", "\"">> \o JsonString(list[i]) \o <<"\"">>
       \o (IF i < Len(list) THEN <<",", "\n">> ELSE <<>>)
       \o JsonItems(list, i + 1)

RECURSIVE ReprItems(_, _)
ReprItems(list, i) ==
  IF i > Len(list) THEN <<>>
  ELSE <<"'">> \o list[i] \o <<"'">>
       \o (IF i < Len(list) THEN <<",", " ">> ELSE <<>>)
       \o ReprItems(list, i + 1)

(* str(list) in place of json.dumps(list, indent=2) at line 65. *)
python_repr(list) == <<"[">> \o ReprItems(list, 1) \o <<"]">>

(* json.dumps(list, indent=2) of a list of strings. *)
json_dumps(list) ==
  IF list = <<>> THEN <<"[", "]">>
  ELSE <<"[", "\n">> \o JsonItems(list, 1) \o <<"\n", "]">>

----------------------------------------------------------------------------
(* subprocess.run(cmd, shell=True, capture_output=True, text=True,         *)
(* check=False): it returns a completed process whatever the exit code, or *)
(* raises an Exception: OSError when the shell cannot be started, and      *)
(* UnicodeDecodeError when the child ran and its captured output is not    *)
(* text.                                                                   *)

SpawnErrors ==
  { <<"[Errno 2] No such file or directory: '/bin/sh'">>,
    <<"[Errno 12] Cannot allocate memory">> }

DecodeErrors ==
  { <<"'utf-8' codec can't decode byte 0xff in position 0: invalid start byte">> }

NoResult == [kind |-> "none"]

Completed(outlen, errlen) ==
  [kind : {"completed"}, returncode : ExitCodes,
   stdout : TextUpTo(outlen, Chars), stderr : TextUpTo(errlen, ErrChars)]

SpawnFailed == [kind : {"raised"}, ran : {FALSE}, description : SpawnErrors]

DecodeFailed ==
  [kind : {"raised"}, ran : {TRUE}, returncode : ExitCodes,
   description : DecodeErrors]

(* run_cmd with check=True at line 28: a non-zero exit raises              *)
(* CalledProcessError, which line 30 turns into a failure triple.          *)
run_cmd_check(r) ==
  IF r.kind = "completed" /\ r.returncode = 0
  THEN <<r.returncode, r.stdout, r.stderr>>
  ELSE IF r.kind = "completed"
       THEN <<1, <<>>, <<"Command returned non-zero exit status">>>>
       ELSE <<1, <<>>, r.description>>

(* run_cmd, lines 25-31: the triple it returns for an outcome of           *)
(* subprocess.run.                                                         *)
run_cmd(r) ==
  IF r.kind = "completed"
  THEN <<r.returncode, r.stdout, r.stderr>>
  ELSE <<1, <<>>, r.description>>

----------------------------------------------------------------------------
(* The state machine of main() *)

State(p) ==
  CASE p = "banner" -> "Start"
    [] p \in {"call_wallet", "wait_wallet"} -> "FetchWallet"
    [] p = "fail" -> "Fail"
    [] p \in {"wallet_line", "call_keygen", "wait_keygen"} -> "Success"
    [] p = "runbook" -> "PrintRunbook"
    [] p \in {"end", "exited"} -> "End"

Enter(p) ==
  IF State(p) = visited[Len(visited)] THEN visited
  ELSE Append(visited, State(p))

Init ==
  /\ pc = "banner"
  /\ locals = [n \in {} |-> n]
  /\ output = <<>>
  /\ child = "none"
  /\ result = NoResult
  /\ invoked = <<>>
  /\ returned = <<>>
  /\ VALIDATORS = ValidatorIdentifiers
  /\ exit_status = <<>>
  /\ visited = <<"Start">>

(* Lines 34-36. *)
Banner ==
  << <<"U+1F680 SolSafe Devnet Initialization", "\n">>,
     <<"Program ID: ", PROGRAM_ID, "\n">>,
     <<"RPC: ", RPC_ENDPOINT, "\n", "\n">> >>

PrintBanner ==
  /\ pc = "banner"
  /\ output' = print(print(print(output,
                 <<"U+1F680 SolSafe Devnet Initialization">>),
                 <<"Program ID: ", PROGRAM_ID>>),
                 <<"RPC: ", RPC_ENDPOINT, "\n">>)
  /\ pc' = "call_wallet"
  /\ visited' = Enter(pc')
  /\ UNCHANGED <<locals, child, result, invoked, returned, VALIDATORS, exit_status>>

(* The assignment rc, out, err = <triple>, lines 39 and 48. *)
Assign(l, t) ==
  [n \in DOMAIN l \cup {"rc", "out", "err"} |->
     CASE n = "rc" -> t[1]
       [] n = "out" -> t[2]
       [] n = "err" -> t[3]
       [] OTHER -> l[n]]

(* Line 40 without the test: main() goes on whatever the exit code. *)
AfterWalletUnchecked(rc) == "wallet_line"

(* Line 40 with one more try of the wallet call before giving up. *)
AfterWalletRetryOnce(rc) ==
  IF rc = 0 THEN "wallet_line"
  ELSE IF Len(returned) = 0 THEN "call_wallet" ELSE "fail"

(* Line 40: where main() goes with the wallet call's exit code. *)
AfterWallet(rc) == IF rc # 0 THEN "fail" ELSE "wallet_line"

(* The test of line 40 repeated after the second call. *)
AfterKeygenChecked(rc) == IF rc # 0 THEN "fail" ELSE "runbook"

(* Lines 48-53: the second call's exit code is not looked at. *)
AfterKeygen(rc) == "runbook"

(* Where main() goes on when the call of `cmd` has returned. *)
After(cmd, rc) == IF cmd = WalletCommand THEN AfterWallet(rc) ELSE AfterKeygen(rc)

(* run_cmd returns to main() with the triple for outcome r. *)
Return(r, cmd) ==
  LET t == run_cmd(r) IN
    /\ result' = r
    /\ locals' = Assign(locals, t)
    /\ returned' = Append(returned, t[1])
    /\ child' = "none"
    /\ pc' = After(cmd, t[1])
    /\ visited' = Enter(pc')

(* Line 28, first half: subprocess.run starts the shell, or fails to and   *)
(* raises, which line 30 catches.  Nothing bounds the child's run time.    *)
Spawn(cmd, at, wait) ==
  /\ pc = at
  /\ invoked' = Append(invoked, cmd)
  /\ \/ /\ \E c \in {"running", "hung"} : child' = c
        /\ pc' = wait
        /\ visited' = Enter(pc')
        /\ UNCHANGED <<locals, result, returned>>
     \/ \E r \in SpawnFailed : Return(r, cmd)
  /\ UNCHANGED <<output, VALIDATORS, exit_status>>

(* Line 28, second half: the child exits and subprocess.run returns the    *)
(* completed process, or raises on output that is not text (line 30).      *)
ChildExit(cmd, wait, outcomes) ==
  /\ pc = wait
  /\ child = "running"
  /\ \E r \in outcomes : Return(r, cmd)
  /\ UNCHANGED <<output, invoked, VALIDATORS, exit_status>>

(* Line 39. *)
CallWallet == Spawn(WalletCommand, "call_wallet", "wait_wallet")

WalletExit(outcomes) == ChildExit(WalletCommand, "wait_wallet", outcomes)

(* Lines 40-41 without the return of line 42. *)
PrintFailureNoReturn ==
  /\ pc = "fail"
  /\ output' = print(output, <<"U+274C Failed to get wallet: ">> \o locals.err)
  /\ pc' = "wallet_line"
  /\ visited' = Enter(pc')
  /\ UNCHANGED <<locals, child, result, invoked, returned, VALIDATORS, exit_status>>

(* Lines 40-42. *)
PrintFailure ==
  /\ pc = "fail"
  /\ output' = print(output, <<"U+274C Failed to get wallet: ">> \o locals.err)
  /\ pc' = "end"
  /\ visited' = Enter(pc')
  /\ UNCHANGED <<locals, child, result, invoked, returned, VALIDATORS, exit_status>>

(* Lines 44-45. *)
PrintWallet ==
  /\ pc = "wallet_line"
  /\ locals' = [n \in DOMAIN locals \cup {"wallet"} |->
                  IF n = "wallet" THEN strip(locals.out) ELSE locals[n]]
  /\ output' = print(output, <<"U+2705 Wallet: ">> \o locals'.wallet \o <<"\n">>)
  /\ pc' = "call_keygen"
  /\ visited' = Enter(pc')
  /\ UNCHANGED <<child, result, invoked, returned, VALIDATORS, exit_status>>

(* Lines 48-50. *)
CallKeygen == Spawn(KeygenCommand, "call_keygen", "wait_keygen")

KeygenExit(outcomes) == ChildExit(KeygenCommand, "wait_keygen", outcomes)

(* enumerate(list), counting from 0. *)
enumerate_from_zero(list) == [k \in 1..Len(list) |-> <<k - 1, list[k]>>]

(* enumerate(list, 1), line 54. *)
enumerate(list) == [k \in 1..Len(list) |-> <<k, list[k]>>]

(* Lines 54-55. *)
RECURSIVE PrintList(_, _)
PrintList(o, pairs) ==
  IF pairs = <<>> THEN o
  ELSE PrintList(print(o, <<"  ", ToString(Head(pairs)[1]), ". ">> \o Head(pairs)[2]),
                 Tail(pairs))

(* Lines 57-64. *)
NextSteps ==
  << <<"\n", "U+23F3 Next Steps:">>,
     <<"1. Use Solana Playground to call initialize instruction">>,
     <<"   - Quorum: 5 validators">>,
     <<"   - Min jurors: 2 (2/3 of 5 = 3.33 U+2192 4 required)">>,
     <<"\n", "2. Call sync_validators with the validator list above">>,
     <<"\n", "3. Submit a test case and vote with validators">>,
     <<"\n", "U+1F4DD Validator list JSON:">> >>

RECURSIVE PrintAll(_, _)
PrintAll(o, texts) ==
  IF texts = <<>> THEN o ELSE PrintAll(print(o, Head(texts)), Tail(texts))

(* Lines 53-65 with the JSON block of lines 64-65 printed first. *)
PrintRunbookJsonFirst ==
  /\ pc = "runbook"
  /\ output' =
       PrintAll(PrintList(print(print(print(output,
                                            <<"\n", "U+1F4DD Validator list JSON:">>),
                                      json_dumps(VALIDATORS)),
                                <<"U+1F4CB Validator List:">>),
                          enumerate(VALIDATORS)),
                SubSeq(NextSteps, 1, 6))
  /\ pc' = "end"
  /\ visited' = Enter(pc')
  /\ UNCHANGED <<locals, child, result, invoked, returned, VALIDATORS, exit_status>>

(* Lines 53-65. *)
PrintRunbook ==
  /\ pc = "runbook"
  /\ output' =
       print(PrintAll(PrintList(print(output, <<"U+1F4CB Validator List:">>),
                                enumerate(VALIDATORS)),
                      NextSteps),
             json_dumps(VALIDATORS))
  /\ pc' = "end"
  /\ visited' = Enter(pc')
  /\ UNCHANGED <<locals, child, result, invoked, returned, VALIDATORS, exit_status>>

(* sys.exit(1) on the failure path. *)
ExitStatusOfFailure(failed) == IF failed THEN 1 ELSE 0

(* Lines 67-68: main()'s value is dropped and the interpreter exits. *)
ExitStatus(failed) == 0

ProcessExit ==
  /\ pc = "end"
  /\ exit_status' = <<ExitStatus(returned[1] # 0)>>
  /\ pc' = "exited"
  /\ visited' = Enter(pc')
  /\ UNCHANGED <<locals, output, child, result, invoked, returned, VALIDATORS>>

(* What subprocess.run can answer once the child has exited. *)
Outcomes(outlen, errlen) == Completed(outlen, errlen) \cup DecodeFailed

Step(outcomes) ==
  \/ PrintBanner
  \/ CallWallet
  \/ WalletExit(outcomes)
  \/ PrintFailure
  \/ PrintWallet
  \/ CallKeygen
  \/ KeygenExit(outcomes)
  \/ PrintRunbook
  \/ ProcessExit

Next == Step(Outcomes(MaxOutLen, MaxErrLen))

Spec == Init /\ [][Next]_vars

(* The run is one sequential thread: a step that can be taken is taken.    *)
(* A hung child never exits, so no step is then enabled.  The texts the    *)
(* children write are drawn from a smaller set here; the control flow does *)
(* not read them beyond the exit code.                                     *)
LiveNext == Step(Outcomes(LiveOutLen, LiveErrLen))

LiveSpec == Init /\ [][LiveNext]_vars /\ WF_vars(LiveNext)

----------------------------------------------------------------------------
(* Vocabulary of the properties *)

(* The wallet call has returned, with a non-zero or a zero exit code. *)
WalletFailed == returned # <<>> /\ returned[1] # 0

WalletSucceeded == returned # <<>> /\ returned[1] = 0

(* main() has returned. *)
Done == pc \in {"end", "exited"}

LineBreaks(text) == Cardinality({i \in 1..Len(text) : text[i] = "\n"})

IsBlank(text) == \A i \in 1..Len(text) : text[i] \in Whitespace

ErrorLine(err) == <<"U+274C Failed to get wallet: ">> \o err \o <<"\n">>

WalletLine(w) == <<"U+2705 Wallet: ">> \o w \o <<"\n", "\n">>

----------------------------------------------------------------------------
(* C1 as stated: when the wallet call returns a non-zero exit code, the    *)
(* output after the banner is exactly one line, the error line carrying    *)
(* the captured stderr text, and nothing of the runbook.                   *)
C1_ExactlyOneErrorLine ==
  (WalletFailed /\ Done) =>
     /\ Len(output) = 4
     /\ output[4] = ErrorLine(locals.err)
     /\ LineBreaks(output[4]) = 1

(* C1 as amended: when the wallet call returns a non-zero exit code, the   *)
(* output is the banner followed by exactly one error message, the         *)
(* 'Failed to get wallet' prefix and the captured stderr text unchanged,   *)
(* written by one print, and nothing of the runbook; the message is one    *)
(* line more than the stderr text has line breaks.                         *)
C1_ExactlyOneErrorMessage ==
  WalletFailed =>
     /\ Len(output) = (IF Done THEN 4 ELSE 3)
     /\ SubSeq(output, 1, 3) = Banner
     /\ Done => /\ output[4] = ErrorLine(locals.err)
                /\ LineBreaks(output[4]) = 1 + LineBreaks(locals.err)

C1_Witness ==
  /\ pc = "exited"
  /\ returned = <<2>>
  /\ locals.err = <<"\n">>
  /\ output[4] = <<"U+274C Failed to get wallet: ", "\n", "\n">>

----------------------------------------------------------------------------
(* The triple main() holds is the one run_cmd returned last. *)
Held == <<locals.rc, locals.out, locals.err>>

(* C2 as stated: run_cmd never raises; whenever the child ran it returns   *)
(* the child's exit code with the captured streams, and only when process  *)
(* creation failed does it return (1, empty, error description).           *)
C2_ChildRanReturnsItsTriple ==
  result.kind # "none" =>
     IF result.kind = "completed"
     THEN Held = <<result.returncode, result.stdout, result.stderr>>
     ELSE IF result.ran
          THEN locals.rc = result.returncode
          ELSE Held = <<1, <<>>, result.description>>

(* C2 as amended: run_cmd passes no Exception of subprocess.run on to its  *)
(* caller.  When subprocess.run returns, run_cmd returns the child's exit  *)
(* code, zero or not, with the captured stdout and stderr; when            *)
(* subprocess.run raises, because the process could not be created or      *)
(* because the child ran and its output is not text, run_cmd returns       *)
(* (1, empty stdout, error description), and a wallet call that ends so    *)
(* takes main() down the failure path of a non-zero wallet exit.           *)
C2_RunCmdReturnsTriple ==
  result.kind # "none" =>
     /\ result.kind = "completed" =>
           Held = <<result.returncode, result.stdout, result.stderr>>
     /\ result.kind = "raised" =>
           /\ Held = <<1, <<>>, result.description>>
           /\ Len(returned) = 1 =>
                 /\ pc \in {"fail", "end", "exited"}
                 /\ Done => output = Append(Banner, ErrorLine(result.description))

C2_Witness ==
  /\ pc = "exited"
  /\ result.kind = "raised"
  /\ ~result.ran
  /\ returned = <<1>>
  /\ output[4] = ErrorLine(<<"[Errno 12] Cannot allocate memory">>)

----------------------------------------------------------------------------
(* w is s without its leading and trailing whitespace, and otherwise s. *)
IsTrimOf(w, s) ==
  /\ \E i \in 0..Len(s) :
        /\ i + Len(w) <= Len(s)
        /\ IsBlank(SubSeq(s, 1, i))
        /\ SubSeq(s, i + 1, i + Len(w)) = w
        /\ IsBlank(SubSeq(s, i + Len(w) + 1, Len(s)))
  /\ w # <<>> => Head(w) \notin Whitespace /\ w[Len(w)] \notin Whitespace

(* C3: when the wallet call returns exit code 0 with stdout W, the wallet  *)
(* line printed is the wallet prefix followed by W without its leading and *)
(* trailing whitespace, W being otherwise unchanged.                       *)
C3_WalletLineIsTrimmedStdout ==
  (Len(returned) = 1 /\ "wallet" \in DOMAIN locals) =>
     /\ Len(output) = 4
     /\ \E w \in TextUpTo(Len(locals.out), Chars) :
           /\ output[4] = WalletLine(w)
           /\ IsTrimOf(w, locals.out)

C3_Witness ==
  /\ pc = "wait_keygen"
  /\ locals.out = <<"\n", "a", " ">>
  /\ output[4] = <<"U+2705 Wallet: ", "a", "\n", "\n">>

----------------------------------------------------------------------------
(* The validator list as lines 53-55 print it. *)
ValidatorListing ==
  << <<"U+1F4CB Validator List:", "\n">>,
     <<"  ", "1", ". ">> \o ValidatorIdentifiers[1] \o <<"\n">>,
     <<"  ", "2", ". ">> \o ValidatorIdentifiers[2] \o <<"\n">>,
     <<"  ", "3", ". ">> \o ValidatorIdentifiers[3] \o <<"\n">>,
     <<"  ", "4", ". ">> \o ValidatorIdentifiers[4] \o <<"\n">>,
     <<"  ", "5", ". ">> \o ValidatorIdentifiers[5] \o <<"\n">> >>

(* C4: the validator list a run prints after the wallet line is the five   *)
(* identifiers of lines 18-22 in that order, one per line, numbered 1 to   *)
(* 5, whatever the wallet and whatever the second call returned; the list  *)
(* VALIDATORS never changes.                                               *)
C4_ValidatorListFixed ==
  /\ VALIDATORS = ValidatorIdentifiers
  /\ Len(VALIDATORS) = 5
  /\ (WalletSucceeded /\ Done) =>
        /\ Len(output) >= 10
        /\ SubSeq(output, 5, 10) = ValidatorListing

C4_Witness ==
  /\ pc = "exited"
  /\ returned = <<0, 2>>
  /\ locals.wallet = <<"a", " ", "a">>
  /\ SubSeq(output, 5, 10) = ValidatorListing

----------------------------------------------------------------------------
(* A JSON parser for arrays of strings. *)

JsonWhitespace == {" ", "\n", "\t", "\r"}

Invalid == [ok |-> FALSE, value |-> <<>>]

(* The number of backslashes that end just before position p of s. *)
BackslashesBefore(s, p) ==
  LET runs == {k \in 0..(p - 1) : \A q \in (p - k)..(p - 1) : s[q] = "\\"}
  IN  CHOOSE k \in runs : \A other \in runs : other <= k

(* A backslash that starts an escape; a quote that no escape covers. *)
IsEscape(s, p) == s[p] = "\\" /\ BackslashesBefore(s, p) % 2 = 0

IsQuote(s, p) == s[p] = "\"" /\ BackslashesBefore(s, p) % 2 = 0

(* The n-th smallest element of a set of numbers. *)
Nth(set, n) == CHOOSE p \in set : Cardinality({q \in set : q < p}) = n - 1

(* The string whose characters between the quotes are c. *)
Unescape(c) ==
  LET escapes == {p \in 1..Len(c) : IsEscape(c, p)}
      kept == {p \in 1..Len(c) : p \notin escapes}
      Shift(p) == Cardinality({e \in escapes : e < p})
      At(n) == CHOOSE p \in kept : p - Shift(p) = n
  IN  IF \/ \E p \in 1..Len(c) : c[p] = "\n"
         \/ \E e \in escapes : e = Len(c) \/ c[e + 1] \notin {"\"", "\\", "n"}
      THEN Invalid
      ELSE IF escapes = {} THEN [ok |-> TRUE, value |-> c]
      ELSE [ok |-> TRUE,
            value |-> [n \in 1..Cardinality(kept) |->
                         IF At(n) - 1 \in escapes /\ c[At(n)] = "n"
                         THEN "\n" ELSE c[At(n)]]]

(* The text between the strings, without its whitespace. *)
Punctuation(s, from, to) ==
  SelectSeq(SubSeq(s, from, to), LAMBDA c : c \notin JsonWhitespace)

parseJSON(s) ==
  LET quotes == {p \in 1..Len(s) : IsQuote(s, p)}
      n == Cardinality(quotes) \div 2
      Open(k) == Nth(quotes, 2 * k - 1)
      Close(k) == Nth(quotes, 2 * k)
      items == [k \in 1..n |-> Unescape(SubSeq(s, Open(k) + 1, Close(k) - 1))]
  IN  IF quotes = {}
      THEN IF Punctuation(s, 1, Len(s)) = <<"[", "]">>
           THEN [ok |-> TRUE, value |-> <<>>] ELSE Invalid
      ELSE IF /\ Cardinality(quotes) % 2 = 0
              /\ Punctuation(s, 1, Open(1) - 1) = <<"[">>
              /\ \A k \in 1..(n - 1) :
                    Punctuation(s, Close(k) + 1, Open(k + 1) - 1) = <<",">>
              /\ Punctuation(s, Close(n) + 1, Len(s)) = <<"]">>
              /\ \A k \in 1..n : items[k].ok
           THEN [ok |-> TRUE, value |-> [k \in 1..n |-> items[k].value]]
           ELSE Invalid

(* C5: the JSON block that ends the output of a successful run parses to   *)
(* the list of the five validator identifiers, in the same order.          *)
C5_JsonBlockRoundTrip ==
  (WalletSucceeded /\ Done) =>
     /\ parseJSON(output[Len(output)]) = [ok |-> TRUE, value |-> VALIDATORS]
     /\ VALIDATORS = ValidatorIdentifiers

C5_Witness ==
  /\ pc = "exited"
  /\ WalletSucceeded
  /\ Len(output[Len(output)]) > 5 * 44
  /\ SubSeq(output[Len(output)], 1, 6) = <<"[", "\n", " ", " ", "\"", "9">>
  /\ parseJSON(output[Len(output)]).value[5] = ValidatorIdentifiers[5]

----------------------------------------------------------------------------
(* What lines 53-65 print. *)
Runbook ==
  print(PrintAll(PrintList(<< <<"U+1F4CB Validator List:", "\n">> >>,
                           enumerate(ValidatorIdentifiers)),
                 NextSteps),
        json_dumps(ValidatorIdentifiers))

(* C6: once the second call has returned, whatever it returned, the run    *)
(* goes on to print the runbook, and all that is printed is a function of  *)
(* the wallet alone: no error line, and the same text for every exit code, *)
(* stdout and stderr of the second call.                                   *)
C6_OutputIgnoresSecondCall ==
  Len(returned) = 2 =>
     /\ pc \in {"runbook", "end", "exited"}
     /\ output = Append(Banner, WalletLine(locals.wallet))
                   \o (IF Done THEN Runbook ELSE <<>>)

C6_Witness ==
  /\ pc = "exited"
  /\ returned = <<0, 1>>
  /\ result.kind = "raised"
  /\ locals.err # <<>>
  /\ Len(output) = 18

----------------------------------------------------------------------------
(* C8: the interpreter exits with status 0 on every run that completes,    *)
(* after a wallet failure as after a success.                              *)
C8_ExitStatusZero ==
  /\ pc = "exited" => exit_status = <<0>>
  /\ pc # "exited" => exit_status = <<>>

C8_Witness ==
  /\ pc = "exited"
  /\ WalletFailed
  /\ Len(output) = 4
  /\ exit_status = <<0>>

----------------------------------------------------------------------------
(* C9: the banner is printed before the wallet call is made; a run whose   *)
(* wallet call exits 0 then prints, once each and in this order, the       *)
(* wallet line, the numbered validator list, the next steps and the JSON   *)
(* block, which is the last output.                                        *)
C9_OutputOrder ==
  /\ pc = "banner" => output = <<>> /\ invoked = <<>>
  /\ pc # "banner" => Len(output) >= 3 /\ SubSeq(output, 1, 3) = Banner
  /\ invoked # <<>> => SubSeq(output, 1, 3) = Banner
  /\ (WalletSucceeded /\ Done) =>
        /\ Len(output) = 18
        /\ output[4][1] = "U+2705 Wallet: "
        /\ output[5] = <<"U+1F4CB Validator List:", "\n">>
        /\ \A i \in 1..5 : SubSeq(output[5 + i], 1, 2) = <<"  ", ToString(i)>>
        /\ output[11] = <<"\n", "U+23F3 Next Steps:", "\n">>
        /\ \A i \in 1..6 : output[11 + i] = NextSteps[1 + i] \o <<"\n">>
        /\ output[17] = <<"\n", "U+1F4DD Validator list JSON:", "\n">>
        /\ output[18] = json_dumps(ValidatorIdentifiers) \o <<"\n">>

C9_Witness ==
  /\ pc = "end"
  /\ returned = <<0, 0>>
  /\ output[4] = WalletLine(<<"a", "a">>)
  /\ output[18][1] = "["

----------------------------------------------------------------------------
(* C10: the wallet command is the first command run and is run once; the   *)
(* key-derivation command is run at most once, and only after the wallet   *)
(* command returned exit code 0.  A run that fails has handed exactly one  *)
(* command to run_cmd when it ends, a run that succeeds exactly two.       *)
C10_CommandsInvoked ==
  /\ invoked \in {<<>>, <<WalletCommand>>, <<WalletCommand, KeygenCommand>>}
  /\ Len(returned) <= Len(invoked)
  /\ Len(invoked) = 2 => WalletSucceeded
  /\ (Done /\ WalletFailed) => Len(invoked) = 1 /\ Len(returned) = 1
  /\ (Done /\ WalletSucceeded) => Len(invoked) = 2 /\ Len(returned) = 2

C10_Witness ==
  /\ pc = "exited"
  /\ invoked = <<WalletCommand, KeygenCommand>>
  /\ returned = <<0, 2>>

----------------------------------------------------------------------------
(* The transitions of the run's state machine. *)
Edges ==
  { <<"Start", "FetchWallet">>,
    <<"FetchWallet", "Fail">>, <<"FetchWallet", "Success">>,
    <<"Fail", "End">>,
    <<"Success", "PrintRunbook">>, <<"PrintRunbook", "End">> }

NoRepeat(seq) == \A i, j \in 1..Len(seq) : i # j => seq[i] # seq[j]

TimesInvoked(cmd) == Cardinality({i \in 1..Len(invoked) : invoked[i] = cmd})

(* C7: a run moves along Start -> FetchWallet -> Fail -> End or            *)
(* Start -> FetchWallet -> Success -> PrintRunbook -> End and in no other  *)
(* way: it enters no state twice and makes the wallet call once.  A run    *)
(* whose commands all exit reaches End; a run waiting for a command that   *)
(* never exits stays where it is and never reaches End.                    *)
C7_LinearStateMachine ==
  /\ [][State(pc') = State(pc) \/ <<State(pc), State(pc')>> \in Edges]_vars
  /\ [](NoRepeat(visited) /\ visited[Len(visited)] = State(pc))
  /\ [](TimesInvoked(WalletCommand) <= 1 /\ Len(returned) <= 2)
  /\ [](child = "hung" => State(pc) \notin {"Fail", "PrintRunbook", "End"})
  /\ [][child = "hung" => pc' = pc /\ child' = child]_vars
  /\ <>(child = "hung" \/ pc = "exited")

C7_Witness ==
  /\ pc = "exited"
  /\ visited = <<"Start", "FetchWallet", "Success", "PrintRunbook", "End">>
  /\ returned = <<0, 2>>
  /\ child = "none"

====
